---- MODULE Spec2Model ----
(***************************************************************************)
(* A model of the analytics engine of hackalytics (src/src/lib/analytics.ts)*)
(* and of the way the dashboard (src/unnamed/part_000) drives it.           *)
(*                                                                          *)
(* Numbers.  The engine computes with IEEE doubles; the model computes with *)
(* exact decimals held as scaled integers:                                  *)
(*   - a player's box-score rates are held in tenths (27.1 -> 271);         *)
(*   - fantasyProjection and defenseImpact are held in hundredths;          *)
(*   - an adjusted score (points + 0.8 * defense) is held in thousandths;   *)
(*   - toFixed(1) is rounding to the nearest tenth, a half going away from  *)
(*     zero (ECMAScript's Number.prototype.toFixed on the exact value).     *)
(* The representation error of binary floating point is not modelled.       *)
(***************************************************************************)
EXTENDS Integers, Sequences, FiniteSets, TLC

VARIABLES
    pool,          \* Player[]: the pool handed to the optimizer
    budget,        \* the salary budget
    slots,         \* the slot count
    constraints,   \* LineupConstraints (NoConstraints for optimizeLineup)
    constrained,   \* TRUE: optimizeLineupWithConstraints is the optimizer in use
    result,        \* the LineupResult of the latest optimizer call
    prev,          \* the LineupResult of the call before the latest
    last,          \* what produced result: "init", "call", "raise", "exclude"
    team,          \* TeamProfile: ratings in tenths, recentForm in hundredths
    scenario,      \* ScenarioInputs: the three deltas, in tenths
    opponentNetRating,  \* in tenths
    iterations,    \* the requested iteration count, in tenths
    winProbability,     \* what projectWinProbability returned, in thousandths
    monte,         \* what runMonteCarloSimulation returned, and the margins it drew
    calls,         \* the engine functions that have returned
    rawIterations, \* the iterations argument as a JavaScript number (it may be NaN)
    planned,       \* what runMonteCarloSimulation made of it: runs, samples, outcome
    sensitivity,   \* SensitivityImpact[]: what calculateScenarioSensitivity returned
    recommendations,    \* Recommendation[]: what generateRecommendations returned
    games,         \* GameSample[]: the game log handed to detectGameAnomalies
    anomalies,     \* GameAnomaly[]: what detectGameAnomalies returned
    teamRows,      \* TeamCsvRow[]: the rows handed to rankTeamsByContenderScore
    ranking,       \* what rankTeamsByContenderScore returned
    csvText,       \* the text handed to parseTeamCsv: lines of cells
    parsed,        \* TeamCsvRow[]: what parseTeamCsv returned
    heap,          \* the arrays of the program: heap[r] is the content of array r
    returns        \* the calls made on the heap: function, returned array, its content then

lineupVars == <<pool, budget, slots, constraints, constrained, result, prev, last>>
inputVars == <<team, scenario, opponentNetRating, iterations>>
outputVars == <<winProbability, monte, calls>>
clampVars == <<rawIterations, planned>>
adviceVars == <<sensitivity, recommendations>>
scoutVars == <<games, anomalies, teamRows, ranking, csvText, parsed>>
frameVars == <<heap, returns>>
analysisVars == <<clampVars, adviceVars, scoutVars, frameVars>>
vars == <<lineupVars, inputVars, outputVars, analysisVars>>

----------------------------------------------------------------------------
(* Bounds of the model. *)

MaxPool == 3
MaxSlots == 2
MaxBudget == 4
MaxExcluded == 1
(* scenario deltas range over -MaxDelta..MaxDelta and +-ExtremeDelta (tenths) *)
MaxDelta == 2
ExtremeDelta == 100000
(* the simulator's range of run counts, [200, 10000] in the code, scaled down *)
MinSamples == 2
MaxSamples == 3
(* the same range scaled to runs of at least ten samples *)
MinLongRun == 10
MaxLongRun == 11
(* the longest game log handed to detectGameAnomalies *)
MaxGames == 5
(* the most rows handed to rankTeamsByContenderScore *)
MaxTeams == 3
(* the most lines of a text handed to parseTeamCsv *)
MaxLines == 3
(* the most calls made in a row on one heap *)
MaxCalls == 2

----------------------------------------------------------------------------
(* types.ts: Player.  Rates are in tenths. *)

Player(id, position, salary, minutes, points, assists, rebounds, steals, blocks, turnovers) ==
    [id |-> id, position |-> position, salary |-> salary, minutes |-> minutes,
     points |-> points, assists |-> assists, rebounds |-> rebounds,
     steals |-> steals, blocks |-> blocks, turnovers |-> turnovers]

(* The players pools are drawn from: two guards whose adjusted scores differ *)
(* by less than a tenth, a forward with an all-zero stat line, a forward with*)
(* an ordinary stat line, a center who only turns the ball over.             *)
Roster ==
    { Player("p1", "G", 2, 30, 100, 0, 2, 0, 0, 0),
      Player("p2", "G", 3, 30, 103, 0, 0, 0, 0, 0),
      Player("p3", "F", 1, 20, 0, 0, 0, 0, 0, 0),
      Player("p4", "F", 2, 30, 80, 20, 50, 10, 5, 15),
      Player("p5", "C", 1, 10, 0, 0, 0, 0, 0, 20) }

PlayerIds == {p.id : p \in Roster}

(* types.ts: LineupConstraints. *)
Formations ==
    { [guards |-> 1, forwards |-> 0, centers |-> 0],
      [guards |-> 1, forwards |-> 1, centers |-> 0],
      [guards |-> 0, forwards |-> 1, centers |-> 1],
      [guards |-> 2, forwards |-> 0, centers |-> 0] }

MinutesThresholds == {0, 25}

NoConstraints ==
    [guards |-> 0, forwards |-> 0, centers |-> 0, minMinutes |-> 0, excludedPlayerIds |-> <<>>]

----------------------------------------------------------------------------
(* Helpers over sequences. *)

RECURSIVE SeqSum(_)
SeqSum(s) == IF s = <<>> THEN 0 ELSE Head(s) + SeqSum(Tail(s))

Includes(s, x) == \E i \in DOMAIN s : s[i] = x

RECURSIVE InsertSorted(_, _)
InsertSorted(x, sorted) ==
    IF sorted = <<>> THEN <<x>>
    ELSE IF x <= Head(sorted) THEN <<x>> \o sorted
         ELSE <<Head(sorted)>> \o InsertSorted(x, Tail(sorted))

(* Mutant: the margins are left in the order they were drawn. *)
SortNone(s) == s

RECURSIVE SortAscending(_)
(* margins.sort((left, right) => left - right) *)
SortAscending(s) == IF s = <<>> THEN <<>> ELSE InsertSorted(Head(s), SortAscending(Tail(s)))

(* Mutant: an unstable sort; an element goes before the elements whose key *)
(* equals its own.                                                         *)
RECURSIVE InsertBeforeEqual(_, _)
InsertBeforeEqual(x, sorted) ==
    IF sorted = <<>> THEN <<x>>
    ELSE IF Head(sorted).key > x.key
         THEN <<Head(sorted)>> \o InsertBeforeEqual(x, Tail(sorted))
         ELSE <<x>> \o sorted

(* Array.prototype.sort with the comparator (left, right) => right.key -   *)
(* left.key: a stable sort, the larger key first.  An element goes after  *)
(* every element whose key is at least its own.                           *)
RECURSIVE InsertByKey(_, _)
InsertByKey(x, sorted) ==
    IF sorted = <<>> THEN <<x>>
    ELSE IF Head(sorted).key >= x.key
         THEN <<Head(sorted)>> \o InsertByKey(x, Tail(sorted))
         ELSE <<x>> \o sorted

RECURSIVE SortInto(_, _)
SortInto(s, sorted) ==
    IF s = <<>> THEN sorted ELSE SortInto(Tail(s), InsertByKey(Head(s), sorted))

(* items sorted by keys[i], the key of items[i] *)
SortDescending(items, keys) ==
    LET keyed == SortInto([i \in DOMAIN items |-> [key |-> keys[i], item |-> items[i]]], <<>>)
    IN [i \in DOMAIN keyed |-> keyed[i].item]

Abs(x) == IF x < 0 THEN -x ELSE x

(* The largest r in low..high with r * r <= x. *)
RECURSIVE IsqrtBetween(_, _, _)
IsqrtBetween(x, low, high) ==
    IF low >= high THEN low
    ELSE LET mid == (low + high + 1) \div 2
         IN IF mid * mid <= x THEN IsqrtBetween(x, mid, high)
            ELSE IsqrtBetween(x, low, mid - 1)

(* Math.floor(Math.sqrt(x)) for 0 <= x < 2^31 *)
Isqrt(x) == IsqrtBetween(x, 0, 46340)

Min(a, b) == IF a <= b THEN a ELSE b
Max(a, b) == IF a >= b THEN a ELSE b

(* num / den rounded to the nearest integer, a half going away from zero *)
(* (den > 0): what toFixed does to the exact quotient.                    *)
RoundHalfAway(num, den) ==
    IF num >= 0 THEN (2 * num + den) \div (2 * den)
    ELSE -((2 * (-num) + den) \div (2 * den))

(* Mutant: the lower bound is not applied. *)
clampNoFloor(value, min, max) == Min(max, value)

(* Math.min(max, Math.max(min, value)) *)
clamp(value, min, max) == Min(max, Max(min, value))

(* Math.round of a value held in units of 1/unit: floor(x + 0.5), the result *)
(* in the same units (so a multiple of unit).                                *)
MathRound(value, unit) == ((2 * value + unit) \div (2 * unit)) * unit

(* 100000 / (1 + e^(-x)) at x = -12, -11.5, ..., 12 *)
SigmoidTable ==
    << 1, 1, 2, 3, 5, 7, 12,
       20, 34, 55, 91, 150, 247, 407,
       669, 1099, 1799, 2931, 4743, 7586, 11920,
       18243, 26894, 37754, 50000, 62246, 73106, 81757,
       88080, 92414, 95257, 97069, 98201, 98901, 99331,
       99593, 99753, 99850, 99909, 99945, 99966, 99980,
       99988, 99993, 99995, 99997, 99998, 99999, 99999 >>

(* sigmoid(value) * 100 in thousandths, value in units of 1e-5: the table,  *)
(* interpolated; 0 below -12 and 100 above 12, where the double saturates.  *)
sigmoid100(value) ==
    IF value < -1200000 THEN 0
    ELSE IF value >= 1200000 THEN 100000
    ELSE LET k == (value + 1200000) \div 50000
             r == (value + 1200000) % 50000
         IN SigmoidTable[k + 1]
            + ((SigmoidTable[k + 2] - SigmoidTable[k + 1]) * r) \div 50000

(* Number(x.toFixed(1)) of a value held in hundredths; the result in tenths. *)
ToFixed1(hundredths) ==
    IF hundredths >= 0 THEN (hundredths + 5) \div 10
    ELSE -((5 - hundredths) \div 10)

----------------------------------------------------------------------------
(* analytics.ts: the lineup optimizer. *)

(* In hundredths. *)
fantasyProjection(player) ==
    10 * player.points + 12 * player.rebounds + 15 * player.assists
    + 30 * player.steals + 30 * player.blocks - 10 * player.turnovers

(* In hundredths. *)
defenseImpact(player) ==
    17 * player.steals + 19 * player.blocks + 4 * player.rebounds

countPosition(lineup, position) ==
    Cardinality({i \in DOMAIN lineup : lineup[i].position = position})

(* chosen.reduce(... fantasyProjection ...), in hundredths *)
totalPoints(chosen) == SeqSum([i \in DOMAIN chosen |-> fantasyProjection(chosen[i])])

(* chosen.reduce(... defenseImpact ...), in hundredths *)
totalDefense(chosen) == SeqSum([i \in DOMAIN chosen |-> defenseImpact(chosen[i])])

(* totalPoints + totalDefense * 0.8, in thousandths *)
adjustedScore(chosen) == 10 * totalPoints(chosen) + 8 * totalDefense(chosen)

(* best.projectedPoints + best.projectedDefenseImpact * 0.8, in thousandths: *)
(* computed from the totals the result reports, which are rounded to a tenth *)
bestScore(best) == 100 * best.projectedPoints + 80 * best.projectedDefenseImpact

computeLineupTotals(lineup, salary) ==
    [lineup |-> lineup,
     totalSalary |-> salary,
     projectedPoints |-> ToFixed1(totalPoints(lineup)),
     projectedDefenseImpact |-> ToFixed1(totalDefense(lineup))]

InfeasibleResult ==
    [lineup |-> <<>>, totalSalary |-> 0, projectedPoints |-> 0,
     projectedDefenseImpact |-> 0, feasibility |-> "infeasible"]

(* Mutant: the recursive call starts from the index just chosen. *)
NextStartSameIndex(index) == index

(* The index the recursive call starts from: backtrack(index + 1, ...) *)
NextStart(index) == index + 1

(* if (salary + player.salary > budget) continue *)
OverBudget(salary, player, b) == salary + player.salary > b

(* salary <= budget && adjustedScore > bestScore *)
Improves(chosen, salary, b, best) == salary <= b /\ adjustedScore(chosen) > bestScore(best)

(* if (salary <= budget && adjustedScore > bestScore) best = {...} *)
Accept(chosen, salary, b, best) ==
    IF Improves(chosen, salary, b, best)
    THEN computeLineupTotals(chosen, salary) @@ [feasibility |-> "optimal"]
    ELSE best

RECURSIVE backtrack(_, _, _, _, _, _, _)
RECURSIVE backtrackLoop(_, _, _, _, _, _, _)

(* optimizeLineup's backtrack(start, chosen, salary); best is threaded through *)
backtrack(p, b, n, start, chosen, salary, best) ==
    IF Len(chosen) = n
    THEN Accept(chosen, salary, b, best)
    ELSE backtrackLoop(p, b, n, start, chosen, salary, best)

(* for (let index = start; index < pool.length; index++) { ... } *)
backtrackLoop(p, b, n, index, chosen, salary, best) ==
    IF index > Len(p) THEN best
    ELSE IF OverBudget(salary, p[index], b)
         THEN backtrackLoop(p, b, n, index + 1, chosen, salary, best)
         ELSE backtrackLoop(p, b, n, index + 1, chosen, salary,
                  backtrack(p, b, n, NextStart(index), Append(chosen, p[index]),
                            salary + p[index].salary, best))

optimizeLineup(p, b, n) == backtrack(p, b, n, 1, <<>>, 0, InfeasibleResult)

(* Mutant: the filter forgets the minutes threshold. *)
IsAvailableAnyMinutes(player, c) == ~Includes(c.excludedPlayerIds, player.id)

(* pool.filter(player => !excluded.includes(player.id) && player.minutes >= minMinutes) *)
IsAvailable(player, c) ==
    /\ ~Includes(c.excludedPlayerIds, player.id)
    /\ player.minutes >= c.minMinutes

availablePool(p, c) == LET keep(player) == IsAvailable(player, c) IN SelectSeq(p, keep)

(* the loop's test: a positional count already above the constraint *)
ExceedsFormation(nextLineup, c) ==
    \/ countPosition(nextLineup, "G") > c.guards
    \/ countPosition(nextLineup, "F") > c.forwards
    \/ countPosition(nextLineup, "C") > c.centers

(* Mutant: the leaf tests the guards only. *)
MeetsFormationGuardsOnly(chosen, c) == countPosition(chosen, "G") = c.guards

(* Mutant: the leaf accepts a lineup that merely does not exceed the counts. *)
MeetsFormationAtMost(chosen, c) == ~ExceedsFormation(chosen, c)

(* the leaf's test: guards, forwards and centers all equal the constraint *)
MeetsFormation(chosen, c) ==
    /\ countPosition(chosen, "G") = c.guards
    /\ countPosition(chosen, "F") = c.forwards
    /\ countPosition(chosen, "C") = c.centers

RECURSIVE backtrackC(_, _, _, _, _, _, _, _)
RECURSIVE backtrackLoopC(_, _, _, _, _, _, _, _)

(* optimizeLineupWithConstraints' backtrack; p is availablePool *)
backtrackC(p, b, c, n, start, chosen, salary, best) ==
    IF Len(chosen) = n
    THEN IF ~MeetsFormation(chosen, c) THEN best
         ELSE Accept(chosen, salary, b, best)
    ELSE backtrackLoopC(p, b, c, n, start, chosen, salary, best)

backtrackLoopC(p, b, c, n, index, chosen, salary, best) ==
    IF index > Len(p) THEN best
    ELSE IF OverBudget(salary, p[index], b)
         THEN backtrackLoopC(p, b, c, n, index + 1, chosen, salary, best)
         ELSE IF ExceedsFormation(Append(chosen, p[index]), c)
              THEN backtrackLoopC(p, b, c, n, index + 1, chosen, salary, best)
              ELSE backtrackLoopC(p, b, c, n, index + 1, chosen, salary,
                       backtrackC(p, b, c, n, NextStart(index), Append(chosen, p[index]),
                                  salary + p[index].salary, best))

optimizeLineupWithConstraints(p, b, c, n) ==
    backtrackC(availablePool(p, c), b, c, n, 1, <<>>, 0, InfeasibleResult)

(* The optimizer the dashboard state selects. *)
Optimize(p, b, c, n, withConstraints) ==
    IF withConstraints THEN optimizeLineupWithConstraints(p, b, c, n)
    ELSE optimizeLineup(p, b, n)

----------------------------------------------------------------------------
(* analytics.ts: the scenario projector. *)

(* In tenths. *)
calculateNetRating(t) == t.offensiveRating - t.defensiveRating

(* The win probability in thousandths of a percent. *)
projectWinProbability(t, sc) ==
    LET baseNet == calculateNetRating(t)
        \* shootingDelta * 0.35 - turnoverDelta * 0.4 + paceDelta * 0.12, in thousandths
        scenarioBoost == 35 * sc.shootingDelta - 40 * sc.turnoverDelta + 12 * sc.paceDelta
        \* 0.18 * (baseNet + scenarioBoost) + 0.75 * recentForm, in units of 1e-5
        score == 18 * (100 * baseNet + scenarioBoost) + 750 * t.recentForm
    IN MathRound(clamp(sigmoid100(score), 1000, 99000), 1000)

----------------------------------------------------------------------------
(* analytics.ts: the Monte Carlo simulator.  Margins are in thousandths. *)

(* clamp(Math.round(iterations), 200, 10000) with the range scaled to      *)
(* [fewest, most]; iterations in tenths, the result a count.               *)
RunsWithin(requested, fewest, most) ==
    clamp(MathRound(requested, 10), 10 * fewest, 10 * most) \div 10

(* The range scaled to [MinSamples, MaxSamples]. *)
Runs(requested) == RunsWithin(requested, MinSamples, MaxSamples)

(* The range scaled to [MinLongRun, MaxLongRun]: runs long enough for the  *)
(* 10th and 90th percentile to differ from the extremes.                   *)
LongRuns(requested) == RunsWithin(requested, MinLongRun, MaxLongRun)

adjustedEdge(t, sc, opponent) ==
    LET baseNet == calculateNetRating(t)
        scenarioEdge == 38 * sc.shootingDelta - 44 * sc.turnoverDelta + 14 * sc.paceDelta
    IN 100 * baseNet + scenarioEdge - 75 * opponent

(* const bins = [...]: a one-sided bin has no min, or no max *)
Bins ==
    << [range |-> "< -10", hasMin |-> FALSE, min |-> 0, hasMax |-> TRUE, max |-> -10000],
       [range |-> "-10 to -5", hasMin |-> TRUE, min |-> -10000, hasMax |-> TRUE, max |-> -5000],
       [range |-> "-5 to 0", hasMin |-> TRUE, min |-> -5000, hasMax |-> TRUE, max |-> 0],
       [range |-> "0 to +5", hasMin |-> TRUE, min |-> 0, hasMax |-> TRUE, max |-> 5000],
       [range |-> "+5 to +10", hasMin |-> TRUE, min |-> 5000, hasMax |-> TRUE, max |-> 10000],
       [range |-> "> +10", hasMin |-> TRUE, min |-> 10000, hasMax |-> FALSE, max |-> 0] >>

(* Mutant: both ends of a bin are inclusive. *)
InBinClosed(margin, bin) ==
    /\ bin.hasMin => margin >= bin.min
    /\ bin.hasMax => margin <= bin.max

(* margin > bin.min && margin <= bin.max *)
InBin(margin, bin) ==
    /\ bin.hasMin => margin > bin.min
    /\ bin.hasMax => margin <= bin.max

(* Mutant: a margin of exactly 0 is counted as a win. *)
CountWinsFromZero(margins) == Cardinality({i \in DOMAIN margins : margins[i] >= 0})

(* the wins the loop counts: if (margin > 0) wins += 1 *)
CountWins(margins) == Cardinality({i \in DOMAIN margins : margins[i] > 0})

(* The call from its second line on, runs being known.  draws[i] is        *)
(* randomNormal() * 8.4 of iteration i, in thousandths.                    *)
simulate(t, sc, opponent, runs, draws) ==
    LET edge == adjustedEdge(t, sc, opponent)
        pushed == [index \in 1..runs |-> edge + draws[index]]
        wins == CountWins(pushed)
        margins == SortAscending(pushed)
        distribution ==
            [b \in DOMAIN Bins |->
                [range |-> Bins[b].range,
                 frequency |-> Cardinality({i \in DOMAIN margins : InBin(margins[i], Bins[b])})]]
    IN [runs |-> runs,
        margins |-> margins,
        wins |-> wins,
        \* Number(((wins / runs) * 100).toFixed(1)), in tenths
        winRate |-> RoundHalfAway(1000 * wins, runs),
        \* Number(averageMargin.toFixed(2)), in hundredths
        averageMargin |-> RoundHalfAway(SeqSum(margins), 10 * Len(margins)),
        \* margins[Math.floor(margins.length * 0.1)].toFixed(2)
        floorMargin |-> RoundHalfAway(margins[(Len(margins) \div 10) + 1], 10),
        \* margins[Math.floor(margins.length * 0.9)].toFixed(2)
        ceilingMargin |-> RoundHalfAway(margins[((9 * Len(margins)) \div 10) + 1], 10),
        distribution |-> distribution]

runMonteCarloSimulation(t, sc, opponent, requested, draws) ==
    simulate(t, sc, opponent, Runs(requested), draws)

----------------------------------------------------------------------------
(* analytics.ts: what runMonteCarloSimulation makes of its iterations      *)
(* argument, with the engine's own range.  A JavaScript number is held as  *)
(* a record: NaN, or a decimal in tenths.                                  *)

NaN == [nan |-> TRUE, tenths |-> 0]

Num(tenths) == [nan |-> FALSE, tenths |-> tenths]

(* Math.round: NaN stays NaN *)
MathRoundNumber(x) == IF x.nan THEN NaN ELSE Num(MathRound(x.tenths, 10))

(* Math.max and Math.min: NaN if either argument is NaN *)
MathMax(a, b) == IF a.nan \/ b.nan THEN NaN ELSE Num(Max(a.tenths, b.tenths))

MathMin(a, b) == IF a.nan \/ b.nan THEN NaN ELSE Num(Min(a.tenths, b.tenths))

(* clamp over JavaScript numbers: Math.min(max, Math.max(min, value)) *)
clampNumber(value, min, max) == MathMin(max, MathMax(min, value))

(* the literals of clamp(Math.round(iterations), 200, 10000) *)
RunsFloor == 200

RunsCeiling == 10000

(* const runs = clamp(Math.round(iterations), 200, 10000) *)
runsOf(iterationsArgument) ==
    clampNumber(MathRoundNumber(iterationsArgument), Num(10 * RunsFloor), Num(10 * RunsCeiling))

(* for (let index = 0; index < runs; index += 1) margins.push(...): the    *)
(* length of margins after the loop; index < NaN is false                  *)
marginsLength(runs) == IF runs.nan THEN 0 ELSE runs.tenths \div 10

(* Math.floor(margins.length * 0.1) and Math.floor(margins.length * 0.9) *)
floorIndex(length) == length \div 10

ceilingIndex(length) == (9 * length) \div 10

(* margins[index] is undefined at an index past the end, and              *)
(* floorMargin.toFixed(2) / ceilingMargin.toFixed(2) of undefined throw    *)
summaryOutcome(length) ==
    IF floorIndex(length) < length /\ ceilingIndex(length) < length THEN "summary" ELSE "TypeError"

(* the call, up to the values of the margins *)
planRuns(iterationsArgument) ==
    LET runs == runsOf(iterationsArgument)
        length == marginsLength(runs)
    IN [runs |-> runs, samples |-> length, outcome |-> summaryOutcome(length)]

----------------------------------------------------------------------------
(* analytics.ts: the scenario sensitivity.  Probabilities are in          *)
(* thousandths of a percent, the reported deltas in hundredths.           *)

(* clamp(probability - opponentNetRating * 0.7, 1, 99) *)
applyOpponentPenalty(probability, opponent) ==
    clamp(probability - 70 * opponent, 1000, 99000)

(* const step = 2, in tenths *)
SensitivityStep == 20

(* Mutant: the comparator without Math.abs. *)
sensitivityKeySigned(entry) == entry.deltaWinProbability

(* what the comparator orders by: Math.abs(deltaWinProbability) *)
sensitivityKey(entry) == Abs(entry.deltaWinProbability)

calculateScenarioSensitivity(t, sc, opponent) ==
    LET baseline == applyOpponentPenalty(projectWinProbability(t, sc), opponent)
        paceShifted ==
            applyOpponentPenalty(
                projectWinProbability(t, [sc EXCEPT !.paceDelta = @ + SensitivityStep]), opponent)
        shootingShifted ==
            applyOpponentPenalty(
                projectWinProbability(t, [sc EXCEPT !.shootingDelta = @ + SensitivityStep]), opponent)
        turnoverShifted ==
            applyOpponentPenalty(
                projectWinProbability(t, [sc EXCEPT !.turnoverDelta = @ + SensitivityStep]), opponent)
        \* Number((shifted - baseline).toFixed(2))
        entries ==
            << [factor |-> "Pace", deltaWinProbability |-> RoundHalfAway(paceShifted - baseline, 10)],
               [factor |-> "Shooting",
                deltaWinProbability |-> RoundHalfAway(shootingShifted - baseline, 10)],
               [factor |-> "Turnovers",
                deltaWinProbability |-> RoundHalfAway(turnoverShifted - baseline, 10)] >>
    IN SortDescending(entries, [i \in DOMAIN entries |-> sensitivityKey(entries[i])])

----------------------------------------------------------------------------
(* analytics.ts: the recommendations.  Deltas and impacts are in tenths.  *)
(* A recommendation's detail, a fixed text per title, is left out.        *)

(* Mutant: the pace rule fires from a delta of 2 on. *)
paceRuleFromTwo(sc) == sc.paceDelta >= 20

(* if (scenario.paceDelta > 2) *)
paceRule(sc) == sc.paceDelta > 20

(* if (scenario.turnoverDelta > 1) *)
turnoverRule(sc) == sc.turnoverDelta > 10

(* if (scenario.shootingDelta < 0) *)
shootingRule(sc) == sc.shootingDelta < 0

(* if (calculateNetRating(team) < opponentNetRating) *)
reboundingRule(t, opponent) == calculateNetRating(t) < opponent

(* Mutant: the default is pushed whatever the list holds. *)
needsDefaultAlways(pushed) == TRUE

(* if (recommendations.length === 0) *)
needsDefault(pushed) == Len(pushed) = 0

(* impact: 6.8 and impact: 4.5 *)
ReboundingImpact == 68

DefaultImpact == 45

generateRecommendations(t, sc, opponent) ==
    LET \* Number((Math.abs(paceDelta) * 1.6 + 4).toFixed(1))
        pace ==
            IF paceRule(sc)
            THEN << [title |-> "Push transition volume",
                     impact |-> ToFixed1(16 * Abs(sc.paceDelta) + 400)] >>
            ELSE <<>>
        \* Number((turnoverDelta * 2.5 + 2).toFixed(1))
        turnover ==
            IF turnoverRule(sc)
            THEN << [title |-> "Prioritize low-risk sets",
                     impact |-> ToFixed1(25 * sc.turnoverDelta + 200)] >>
            ELSE <<>>
        \* Number((Math.abs(shootingDelta) * 2.1 + 1.5).toFixed(1))
        shooting ==
            IF shootingRule(sc)
            THEN << [title |-> "Shift shot profile inward",
                     impact |-> ToFixed1(21 * Abs(sc.shootingDelta) + 150)] >>
            ELSE <<>>
        rebounding ==
            IF reboundingRule(t, opponent)
            THEN << [title |-> "Defensive rebounding emphasis", impact |-> ReboundingImpact] >>
            ELSE <<>>
        pushed == pace \o turnover \o shooting \o rebounding
        all ==
            IF needsDefault(pushed)
            THEN Append(pushed, [title |-> "Maintain current game model", impact |-> DefaultImpact])
            ELSE pushed
    \* recommendations.sort((left, right) => right.impact - left.impact)
    IN SortDescending(all, [i \in DOMAIN all |-> all[i].impact])

----------------------------------------------------------------------------
(* analytics.ts: detectGameAnomalies.  Points are integers; an anomaly    *)
(* score is held in tenths.  With n differences of sum S, the deviation   *)
(* of a difference d is held as D = n * d - S = n * (d - mean), and the   *)
(* variance as Q = the sum of the D * D = n^3 * variance, so that         *)
(* z = (d - mean) / stdDev has z^2 = n * D^2 / Q.                          *)

(* Mutant: the mean is not subtracted. *)
deviationFromZero(d, differences) == Len(differences) * d

deviation(d, differences) == Len(differences) * d - SeqSum(differences)

squaredDeviations(differences) ==
    SeqSum([j \in DOMAIN differences |->
                deviation(differences[j], differences) * deviation(differences[j], differences)])

(* Math.floor(4000000 * a / b), long division in two steps of 2000 so that *)
(* no intermediate exceeds 32 bits                                         *)
FourMillionTimes(a, b) ==
    LET first == (a % b) * 2000
        second == (first % b) * 2000
    IN (a \div b) * 4000000 + (first \div b) * 2000 + (second \div b)

(* Number((Math.abs(zScore) * 100).toFixed(1)), in tenths: the square root *)
(* of 10^6 * z^2 rounded to the nearest integer, a half going up.  When    *)
(* the variance is 0, stdDev = Math.sqrt(variance) || 1 is 1.              *)
anomalyScoreOf(d, differences) ==
    LET n == Len(differences)
        dev == deviation(d, differences)
        q == squaredDeviations(differences)
    IN IF q = 0 THEN RoundHalfAway(1000 * Abs(dev), n)
       ELSE (Isqrt(FourMillionTimes(n * dev * dev, q)) + 1) \div 2

(* |zScore| >= 1.2, that is z^2 >= 1.44 *)
beyondThreshold(d, differences) ==
    LET n == Len(differences)
        dev == deviation(d, differences)
        q == squaredDeviations(differences)
    IN IF q = 0 THEN 10 * Abs(dev) >= 12 * n
       ELSE 100 * n * dev * dev >= 144 * q

(* zScore >= 1.2, else zScore <= -1.2, else 'Normal' *)
labelOf(d, differences) ==
    IF deviation(d, differences) > 0 /\ beyondThreshold(d, differences) THEN "Positive Outlier"
    ELSE IF deviation(d, differences) < 0 /\ beyondThreshold(d, differences)
         THEN "Negative Outlier"
         ELSE "Normal"

(* .slice(0, 4) *)
TopAnomalies == 4

slice(s, count) == SubSeq(s, 1, Min(count, Len(s)))

(* Mutant: the first four games are kept, and then sorted. *)
sliceThenSort(entries) ==
    LET kept == slice(entries, TopAnomalies)
    IN SortDescending(kept, [i \in DOMAIN kept |-> kept[i].anomalyScore])

(* .sort((left, right) => right.anomalyScore - left.anomalyScore).slice(0, 4) *)
sortThenSlice(entries) ==
    slice(SortDescending(entries, [i \in DOMAIN entries |-> entries[i].anomalyScore]), TopAnomalies)

detectGameAnomalies(gs) ==
    IF Len(gs) = 0 THEN <<>>
    ELSE LET differences == [i \in DOMAIN gs |-> gs[i].pointsFor - gs[i].pointsAgainst]
             entries ==
                 [i \in DOMAIN gs |->
                     [game |-> gs[i].game,
                      opponent |-> gs[i].opponent,
                      anomalyScore |-> anomalyScoreOf(differences[i], differences),
                      label |-> labelOf(differences[i], differences)]]
         IN sortThenSlice(entries)

----------------------------------------------------------------------------
(* analytics.ts: rankTeamsByContenderScore.  Ratings, pace and net are in *)
(* tenths, a contender score in hundredths.                               *)

(* Mutant: the comparator orders by net. *)
contenderKeyNet(row) == row.net

(* what the comparator orders by: right.contenderScore - left.contenderScore *)
contenderKey(row) == row.contenderScore

(* { ...team, net, contenderScore: Number(contenderScore.toFixed(2)) } *)
scoredRow(row) ==
    LET net == row.offensiveRating - row.defensiveRating
        \* Math.abs(team.pace - 100) * 0.15, in thousandths
        tempoPenalty == 15 * Abs(row.pace - 1000)
        \* net * 3.2 - tempoPenalty, in thousandths
        contenderScore == 320 * net - tempoPenalty
    IN [name |-> row.name,
        offensiveRating |-> row.offensiveRating,
        defensiveRating |-> row.defensiveRating,
        pace |-> row.pace,
        net |-> net,
        contenderScore |-> RoundHalfAway(contenderScore, 10)]

rankTeamsByContenderScore(rows) ==
    LET scored == [i \in DOMAIN rows |-> scoredRow(rows[i])]
    IN SortDescending(scored, [i \in DOMAIN scored |-> contenderKey(scored[i])])

----------------------------------------------------------------------------
(* analytics.ts: parseTeamCsv.  A text is held as its lines, a line as its *)
(* comma-separated cells: text.split(/\r?\n/) and row.split(',') are read  *)
(* off the representation, and the empty line '' is the one cell ''.       *)

EmptyLine == <<"">>

(* String.prototype.trim on the cells of the model *)
trim(cell) ==
    CASE cell = " " -> ""
      [] cell = " B " -> "B"
      [] cell = " 105 " -> "105"
      [] OTHER -> cell

(* Number(cell), in tenths: white space is trimmed, the empty string is 0, *)
(* a decimal literal is its value and any other text is NaN                *)
Number(cell) ==
    LET text == trim(cell)
    IN CASE text = "" -> Num(0)
         [] text = "95.5" -> Num(955)
         [] text = "100" -> Num(1000)
         [] text = "105" -> Num(1050)
         [] text = "110" -> Num(1100)
         [] text = "120" -> Num(1200)
         [] OTHER -> NaN

parseTeamCsv(text) ==
    LET \* .filter(Boolean): the empty string is the only falsy line
        truthy(line) == line # EmptyLine
        lines == SelectSeq(text, truthy)
        \* .filter((cells) => cells.length >= 4)
        wide(cells) == Len(cells) >= 4
        \* !Number.isNaN(...) of the three numeric fields
        numeric(row) ==
            ~row.offensiveRating.nan /\ ~row.defensiveRating.nan /\ ~row.pace.nan
    IN IF Len(lines) <= 1 THEN <<>>
       ELSE LET rows == SelectSeq(Tail(lines), wide)
                mapped ==
                    [i \in DOMAIN rows |->
                        [name |-> trim(rows[i][1]),
                         offensiveRating |-> Number(rows[i][2]),
                         defensiveRating |-> Number(rows[i][3]),
                         pace |-> Number(rows[i][4])]]
            IN SelectSeq(mapped, numeric)

----------------------------------------------------------------------------
(* analytics.ts: the same functions over the arrays they are handed and   *)
(* the arrays they create.  A heap is a sequence of arrays, a reference   *)
(* the index of an array in it; an array literal, a spread, map, filter   *)
(* and slice create a new array, push, pop and sort work on the array     *)
(* they are called on.  A function returns the heap it leaves behind and  *)
(* the reference it returns.                                              *)

(* a new array of the given content; its reference is the new length *)
Alloc(h, content) == Append(h, content)

(* chosen.push(player) *)
Push(h, ref, x) == [h EXCEPT ![ref] = Append(@, x)]

(* chosen.pop() *)
Pop(h, ref) == [h EXCEPT ![ref] = SubSeq(@, 1, Len(@) - 1)]

(* array.sort(comparator), keys[i] being the key of the array's element i *)
SortInPlace(h, ref, keys) == [h EXCEPT ![ref] = SortDescending(@, keys)]

(* best = { ...computeLineupTotals(chosen, salary), feasibility: 'optimal' }, *)
(* where lineup: [...lineup] is a new array                                   *)
acceptOnHeap(st, chosenRef, salary, b) ==
    LET chosen == st.heap[chosenRef]
    IN IF Improves(chosen, salary, b, st.best)
       THEN LET totals == computeLineupTotals(chosen, salary)
                copied == Alloc(st.heap, totals.lineup)
            IN [heap |-> copied,
                best |-> [lineup |-> Len(copied),
                          totalSalary |-> totals.totalSalary,
                          projectedPoints |-> totals.projectedPoints,
                          projectedDefenseImpact |-> totals.projectedDefenseImpact,
                          feasibility |-> "optimal"]]
       ELSE st

(* let best = { lineup: [], ... } *)
initialBest(h) ==
    LET empty == Alloc(h, <<>>)
    IN [heap |-> empty, best |-> [InfeasibleResult EXCEPT !.lineup = Len(empty)]]

RECURSIVE backtrackOnHeap(_, _, _, _, _, _, _)
RECURSIVE backtrackLoopOnHeap(_, _, _, _, _, _, _)

(* optimizeLineup's backtrack(start, chosen, salary): chosen is one array, *)
(* pushed to and popped from                                               *)
backtrackOnHeap(st, poolRef, chosenRef, b, n, start, salary) ==
    IF Len(st.heap[chosenRef]) = n
    THEN acceptOnHeap(st, chosenRef, salary, b)
    ELSE backtrackLoopOnHeap(st, poolRef, chosenRef, b, n, start, salary)

backtrackLoopOnHeap(st, poolRef, chosenRef, b, n, index, salary) ==
    IF index > Len(st.heap[poolRef]) THEN st
    ELSE LET player == st.heap[poolRef][index]
         IN IF OverBudget(salary, player, b)
            THEN backtrackLoopOnHeap(st, poolRef, chosenRef, b, n, index + 1, salary)
            ELSE LET pushed == [st EXCEPT !.heap = Push(@, chosenRef, player)]
                     searched == backtrackOnHeap(pushed, poolRef, chosenRef, b, n,
                                                 NextStart(index), salary + player.salary)
                     popped == [searched EXCEPT !.heap = Pop(@, chosenRef)]
                 IN backtrackLoopOnHeap(popped, poolRef, chosenRef, b, n, index + 1, salary)

(* backtrack(0, [], 0); return best *)
optimizeLineupOnHeap(h, poolRef, b, n) ==
    LET started == initialBest(h)
        chosen == Alloc(started.heap, <<>>)
    IN backtrackOnHeap([started EXCEPT !.heap = chosen], poolRef, Len(chosen), b, n, 1, 0)

RECURSIVE backtrackConstrainedOnHeap(_, _, _, _, _, _, _, _)
RECURSIVE backtrackLoopConstrainedOnHeap(_, _, _, _, _, _, _, _)

(* optimizeLineupWithConstraints' backtrack: every step has its own array, *)
(* nextLineup = [...chosen, player]                                        *)
backtrackConstrainedOnHeap(st, availableRef, c, b, n, start, chosenRef, salary) ==
    IF Len(st.heap[chosenRef]) = n
    THEN IF ~MeetsFormation(st.heap[chosenRef], c) THEN st
         ELSE acceptOnHeap(st, chosenRef, salary, b)
    ELSE backtrackLoopConstrainedOnHeap(st, availableRef, c, b, n, start, chosenRef, salary)

backtrackLoopConstrainedOnHeap(st, availableRef, c, b, n, index, chosenRef, salary) ==
    IF index > Len(st.heap[availableRef]) THEN st
    ELSE LET player == st.heap[availableRef][index]
         IN IF OverBudget(salary, player, b)
            THEN backtrackLoopConstrainedOnHeap(st, availableRef, c, b, n, index + 1,
                                                chosenRef, salary)
            ELSE LET spread == Alloc(st.heap, Append(st.heap[chosenRef], player))
                     nextLineup == Len(spread)
                     next == [st EXCEPT !.heap = spread]
                 IN IF ExceedsFormation(spread[nextLineup], c)
                    THEN backtrackLoopConstrainedOnHeap(next, availableRef, c, b, n, index + 1,
                                                        chosenRef, salary)
                    ELSE backtrackLoopConstrainedOnHeap(
                             backtrackConstrainedOnHeap(next, availableRef, c, b, n,
                                 NextStart(index), nextLineup, salary + player.salary),
                             availableRef, c, b, n, index + 1, chosenRef, salary)

(* c.excludedPlayerIds is the reference of the array of excluded ids: it is *)
(* read with includes; pool.filter gives a new array                        *)
optimizeLineupWithConstraintsOnHeap(h, poolRef, b, c, n) ==
    LET read == [c EXCEPT !.excludedPlayerIds = h[c.excludedPlayerIds]]
        filtered == Alloc(h, availablePool(h[poolRef], read))
        availableRef == Len(filtered)
        started == initialBest(filtered)
        chosen == Alloc(started.heap, <<>>)
    IN backtrackConstrainedOnHeap([started EXCEPT !.heap = chosen], availableRef, read, b, n,
                                  1, Len(chosen), 0)

(* detectGameAnomalies: games.map(...) is a new array, sorted in place, and *)
(* slice gives the array returned                                           *)
detectGameAnomaliesOnHeap(h, gamesRef) ==
    IF Len(h[gamesRef]) = 0
    THEN LET empty == Alloc(h, <<>>) IN [heap |-> empty, returned |-> Len(empty)]
    ELSE LET gs == h[gamesRef]
             differences == Alloc(h, [i \in DOMAIN gs |-> gs[i].pointsFor - gs[i].pointsAgainst])
             ds == differences[Len(differences)]
             mapped ==
                 Alloc(differences,
                       [i \in DOMAIN gs |->
                           [game |-> gs[i].game,
                            opponent |-> gs[i].opponent,
                            anomalyScore |-> anomalyScoreOf(ds[i], ds),
                            label |-> labelOf(ds[i], ds)]])
             entries == Len(mapped)
             sorted ==
                 SortInPlace(mapped, entries,
                             [i \in DOMAIN mapped[entries] |-> mapped[entries][i].anomalyScore])
             sliced == Alloc(sorted, slice(sorted[entries], TopAnomalies))
         IN [heap |-> sliced, returned |-> Len(sliced)]

(* Mutant: the rows handed in are sorted in place, then mapped. *)
rankTeamsSortingInput(h, teamsRef) ==
    LET sorted ==
            SortInPlace(h, teamsRef,
                        [i \in DOMAIN h[teamsRef] |-> contenderKey(scoredRow(h[teamsRef][i]))])
        mapped == Alloc(sorted, [i \in DOMAIN sorted[teamsRef] |-> scoredRow(sorted[teamsRef][i])])
    IN [heap |-> mapped, returned |-> Len(mapped)]

(* rankTeamsByContenderScore: teams.map(...) is a new array, sorted in place *)
(* and returned                                                              *)
rankTeamsByContenderScoreOnHeap(h, teamsRef) ==
    LET mapped == Alloc(h, [i \in DOMAIN h[teamsRef] |-> scoredRow(h[teamsRef][i])])
        scored == Len(mapped)
        sorted ==
            SortInPlace(mapped, scored,
                        [i \in DOMAIN mapped[scored] |-> contenderKey(mapped[scored][i])])
    IN [heap |-> sorted, returned |-> scored]

----------------------------------------------------------------------------
(* The lineup optimizer driven as the dashboard drives it. *)

(* Pools: sequences of pairwise distinct roster players, at most MaxPool long *)
Pools ==
    UNION { { s \in [1..k -> Roster] : \A i, j \in 1..k : i # j => s[i].id # s[j].id }
            : k \in 0..MaxPool }

ConstraintSets ==
    { [guards |-> f.guards, forwards |-> f.forwards, centers |-> f.centers,
       minMinutes |-> m, excludedPlayerIds |-> <<>>]
      : f \in Formations, m \in MinutesThresholds }

(* types.ts: TeamProfile; the seed team, an even team, a weak team and two *)
(* teams with extreme ratings and form                                    *)
Teams ==
    { [offensiveRating |-> 1186, defensiveRating |-> 1098, recentForm |-> 72],
      [offensiveRating |-> 1000, defensiveRating |-> 1000, recentForm |-> 0],
      [offensiveRating |-> 900, defensiveRating |-> 1150, recentForm |-> -50],
      [offensiveRating |-> 30000, defensiveRating |-> 0, recentForm |-> 500],
      [offensiveRating |-> 0, defensiveRating |-> 30000, recentForm |-> -500] }

Deltas == {10 * d : d \in -MaxDelta..MaxDelta} \cup {-ExtremeDelta, ExtremeDelta}

Scenarios == [paceDelta : Deltas, shootingDelta : Deltas, turnoverDelta : Deltas]

ZeroScenario == [paceDelta |-> 0, shootingDelta |-> 0, turnoverDelta |-> 0]

IdleLineup ==
    /\ pool = <<>>
    /\ budget = 0
    /\ slots = 1
    /\ constrained = FALSE
    /\ constraints = NoConstraints
    /\ result = InfeasibleResult
    /\ prev = InfeasibleResult
    /\ last = "init"

IdleInputs ==
    /\ team = [offensiveRating |-> 1000, defensiveRating |-> 1000, recentForm |-> 0]
    /\ scenario = ZeroScenario
    /\ opponentNetRating = 0
    /\ iterations = 0

NoSummary == [runs |-> 0, margins |-> <<>>, wins |-> 0, winRate |-> 0, averageMargin |-> 0,
              floorMargin |-> 0, ceilingMargin |-> 0, distribution |-> <<>>]

IdleOutputs ==
    /\ winProbability = 0
    /\ monte = NoSummary
    /\ calls = {}

NotPlanned == [runs |-> Num(0), samples |-> 0, outcome |-> "none"]

IdleClamp ==
    /\ rawIterations = Num(0)
    /\ planned = NotPlanned

IdleAdvice ==
    /\ sensitivity = <<>>
    /\ recommendations = <<>>

IdleScout ==
    /\ games = <<>>
    /\ anomalies = <<>>
    /\ teamRows = <<>>
    /\ ranking = <<>>
    /\ csvText = <<>>
    /\ parsed = <<>>

IdleFrame ==
    /\ heap = <<>>
    /\ returns = <<>>

IdleAnalysis ==
    /\ IdleClamp
    /\ IdleAdvice
    /\ IdleFrame
    /\ IdleScout

Init ==
    /\ pool \in Pools
    /\ budget \in 1..MaxBudget
    /\ slots \in 1..MaxSlots
    /\ constrained \in BOOLEAN
    /\ constraints \in (IF constrained THEN ConstraintSets ELSE {NoConstraints})
    /\ result = InfeasibleResult
    /\ prev = InfeasibleResult
    /\ last = "init"
    /\ IdleInputs
    /\ IdleOutputs
    /\ IdleAnalysis

(* the first evaluation of the lineup (useMemo over budget and constraints) *)
CallOptimizer ==
    /\ last = "init"
    /\ result' = Optimize(pool, budget, constraints, slots, constrained)
    /\ last' = "call"
    /\ UNCHANGED <<pool, budget, slots, constraints, constrained, prev>>
    /\ UNCHANGED <<inputVars, outputVars, analysisVars>>

(* setBudget to a larger value: the lineup is evaluated again *)
RaiseBudget ==
    /\ last # "init"
    /\ \E b \in (budget + 1)..MaxBudget :
          /\ budget' = b
          /\ result' = Optimize(pool, b, constraints, slots, constrained)
    /\ prev' = result
    /\ last' = "raise"
    /\ UNCHANGED <<pool, slots, constraints, constrained>>
    /\ UNCHANGED <<inputVars, outputVars, analysisVars>>

(* a player is marked injured: the id joins excludedPlayerIds, and the lineup *)
(* is evaluated again *)
ExcludePlayer ==
    /\ last # "init"
    /\ constrained
    /\ Len(constraints.excludedPlayerIds) < MaxExcluded
    /\ \E i \in DOMAIN pool :
          /\ ~Includes(constraints.excludedPlayerIds, pool[i].id)
          /\ constraints' = [constraints EXCEPT !.excludedPlayerIds = Append(@, pool[i].id)]
          /\ result' = Optimize(pool, budget, constraints', slots, constrained)
    /\ prev' = result
    /\ last' = "exclude"
    /\ UNCHANGED <<pool, budget, slots, constrained>>
    /\ UNCHANGED <<inputVars, outputVars, analysisVars>>

Next == CallOptimizer \/ RaiseBudget \/ ExcludePlayer

Spec == Init /\ [][Next]_vars

----------------------------------------------------------------------------
(* The scenario projector applied to a team and a scenario. *)

InitProjector ==
    /\ IdleLineup
    /\ team \in Teams
    /\ scenario \in Scenarios
    /\ opponentNetRating = 0
    /\ iterations = 0
    /\ IdleOutputs
    /\ IdleAnalysis

ProjectWinProbability ==
    /\ "projectWinProbability" \notin calls
    /\ winProbability' = projectWinProbability(team, scenario)
    /\ calls' = calls \cup {"projectWinProbability"}
    /\ UNCHANGED <<lineupVars, inputVars, monte, analysisVars>>

NextProjector == ProjectWinProbability

SpecProjector == InitProjector /\ [][NextProjector]_vars

----------------------------------------------------------------------------
(* The Monte Carlo simulator run once; its random draws are the action's *)
(* input.                                                                *)

(* randomNormal() * 8.4, in thousandths *)
Variances == {-12000, -10000, -5000, 0, 5000, 10000, 12000}

(* requested iteration counts, in tenths: none, negative, below and above *)
(* the range, fractional, and in range                                    *)
IterationCounts ==
    {-10, 0, 10 * MinSamples + 4, 10 * MinSamples + 5, 10 * MaxSamples, 10 * MaxSamples + 10}

SimulatedTeams ==
    { [offensiveRating |-> 1186, defensiveRating |-> 1098, recentForm |-> 72],
      [offensiveRating |-> 1000, defensiveRating |-> 1000, recentForm |-> 0] }

SimulatedScenarios == {ZeroScenario, [paceDelta |-> 20, shootingDelta |-> -10, turnoverDelta |-> 10]}

InitMonteCarlo ==
    /\ IdleLineup
    /\ team \in SimulatedTeams
    /\ scenario \in SimulatedScenarios
    /\ opponentNetRating = 0
    /\ iterations \in IterationCounts
    /\ IdleOutputs
    /\ IdleAnalysis

RunMonteCarloSimulation ==
    /\ "runMonteCarloSimulation" \notin calls
    /\ \E draws \in [1..Runs(iterations) -> Variances] :
          monte' = runMonteCarloSimulation(team, scenario, opponentNetRating, iterations, draws)
    /\ calls' = calls \cup {"runMonteCarloSimulation"}
    /\ UNCHANGED <<lineupVars, inputVars, winProbability, analysisVars>>

NextMonteCarlo == RunMonteCarloSimulation

SpecMonteCarlo == InitMonteCarlo /\ [][NextMonteCarlo]_vars

----------------------------------------------------------------------------
(* The Monte Carlo simulator run once over at least ten samples. *)

(* randomNormal() * 8.4, in thousandths: a low draw and a high draw *)
TailVariances == {-12000, 5000}

LongIterationCounts ==
    {0, 10 * MinLongRun + 4, 10 * MinLongRun + 5, 10 * MaxLongRun + 10}

InitPercentiles ==
    /\ IdleLineup
    /\ team \in SimulatedTeams
    /\ scenario \in SimulatedScenarios
    /\ opponentNetRating = 0
    /\ iterations \in LongIterationCounts
    /\ IdleOutputs
    /\ IdleAnalysis

RunLongSimulation ==
    /\ "runMonteCarloSimulation" \notin calls
    /\ \E draws \in [1..LongRuns(iterations) -> TailVariances] :
          monte' = simulate(team, scenario, opponentNetRating, LongRuns(iterations), draws)
    /\ calls' = calls \cup {"runMonteCarloSimulation"}
    /\ UNCHANGED <<lineupVars, inputVars, winProbability, analysisVars>>

NextPercentiles == RunLongSimulation

SpecPercentiles == InitPercentiles /\ [][NextPercentiles]_vars

----------------------------------------------------------------------------
(* The scenario sensitivity of a team, a scenario and an opponent. *)

(* opponent net ratings, in tenths: weaker, level (the league average), *)
(* stronger, and far stronger                                           *)
OpponentRatings == {-50, 0, 21, 64, 500}

InitSensitivity ==
    /\ IdleLineup
    /\ team \in Teams
    /\ scenario \in Scenarios
    /\ opponentNetRating \in OpponentRatings
    /\ iterations = 0
    /\ IdleOutputs
    /\ IdleAnalysis

CalculateScenarioSensitivity ==
    /\ "calculateScenarioSensitivity" \notin calls
    /\ sensitivity' = calculateScenarioSensitivity(team, scenario, opponentNetRating)
    /\ calls' = calls \cup {"calculateScenarioSensitivity"}
    /\ UNCHANGED <<lineupVars, inputVars, winProbability, monte>>
    /\ UNCHANGED <<clampVars, recommendations, scoutVars, frameVars>>

NextSensitivity == CalculateScenarioSensitivity

SpecSensitivity == InitSensitivity /\ [][NextSensitivity]_vars

----------------------------------------------------------------------------
(* The recommendations for a team, a scenario and an opponent. *)

(* deltas in tenths, on both sides of each rule's threshold *)
AdvisedScenarios ==
    [paceDelta : {-30, 0, 20, 21, 30, 50},
     turnoverDelta : {-10, 0, 10, 11, 19, 40},
     shootingDelta : {-50, -25, -1, 0, 10}]

(* opponents below, at and above the net rating of SimulatedTeams *)
AdvisedOpponents == {0, 1, 88, 89}

InitRecommendations ==
    /\ IdleLineup
    /\ team \in SimulatedTeams
    /\ scenario \in AdvisedScenarios
    /\ opponentNetRating \in AdvisedOpponents
    /\ iterations = 0
    /\ IdleOutputs
    /\ IdleAnalysis

GenerateRecommendations ==
    /\ "generateRecommendations" \notin calls
    /\ recommendations' = generateRecommendations(team, scenario, opponentNetRating)
    /\ calls' = calls \cup {"generateRecommendations"}
    /\ UNCHANGED <<lineupVars, inputVars, winProbability, monte>>
    /\ UNCHANGED <<clampVars, sensitivity, scoutVars, frameVars>>

NextRecommendations == GenerateRecommendations

SpecRecommendations == InitRecommendations /\ [][NextRecommendations]_vars

----------------------------------------------------------------------------
(* detectGameAnomalies applied to a game log. *)

(* pointsFor and pointsAgainst of a game: four of the seed log's scores *)
ScoreLines == {<<118, 112>>, <<110, 115>>, <<119, 120>>, <<128, 116>>}

(* game logs of up to MaxGames games; a game is named by its number, which *)
(* also stands for its opponent; pace, efg, turnovers and rebounding are   *)
(* not read by the engine                                                  *)
GameLogs ==
    UNION { { [i \in 1..n |->
                 [game |-> i, opponent |-> i,
                  pointsFor |-> scores[i][1], pointsAgainst |-> scores[i][2]]] :
              scores \in [1..n -> ScoreLines] } : n \in 0..MaxGames }

InitAnomalies ==
    /\ IdleLineup
    /\ IdleInputs
    /\ IdleOutputs
    /\ IdleClamp
    /\ IdleAdvice
    /\ IdleFrame
    /\ games \in GameLogs
    /\ anomalies = <<>>
    /\ teamRows = <<>>
    /\ ranking = <<>>
    /\ csvText = <<>>
    /\ parsed = <<>>

DetectGameAnomalies ==
    /\ "detectGameAnomalies" \notin calls
    /\ anomalies' = detectGameAnomalies(games)
    /\ calls' = calls \cup {"detectGameAnomalies"}
    /\ UNCHANGED <<lineupVars, inputVars, winProbability, monte>>
    /\ UNCHANGED <<clampVars, adviceVars, frameVars, games, teamRows, ranking, csvText, parsed>>

NextAnomalies == DetectGameAnomalies

SpecAnomalies == InitAnomalies /\ [][NextAnomalies]_vars

----------------------------------------------------------------------------
(* detectGameAnomalies applied to game logs of few distinct differentials. *)

(* two score lines of one point differential (+6) and one of another (-5) *)
LevelScoreLines == {<<118, 112>>, <<106, 100>>, <<110, 115>>}

LevelGameLogs ==
    UNION { { [i \in 1..n |->
                 [game |-> i, opponent |-> i,
                  pointsFor |-> scores[i][1], pointsAgainst |-> scores[i][2]]] :
              scores \in [1..n -> LevelScoreLines] } : n \in 0..MaxGames }

InitLevel ==
    /\ IdleLineup
    /\ IdleInputs
    /\ IdleOutputs
    /\ IdleClamp
    /\ IdleAdvice
    /\ IdleFrame
    /\ games \in LevelGameLogs
    /\ anomalies = <<>>
    /\ teamRows = <<>>
    /\ ranking = <<>>
    /\ csvText = <<>>
    /\ parsed = <<>>

SpecLevel == InitLevel /\ [][NextAnomalies]_vars

----------------------------------------------------------------------------
(* rankTeamsByContenderScore applied to a list of rows. *)

TeamRow(name, offensiveRating, defensiveRating, pace) ==
    [name |-> name, offensiveRating |-> offensiveRating,
     defensiveRating |-> defensiveRating, pace |-> pace]

(* A and B are the specification's example; C scores what A scores; F has *)
(* a higher net than E and a lower score                                  *)
SampleRows ==
    { TeamRow("A", 1100, 1000, 1000), TeamRow("B", 1200, 1000, 1050),
      TeamRow("C", 1150, 1050, 1000), TeamRow("D", 1000, 1100, 900),
      TeamRow("E", 1104, 1000, 1018), TeamRow("F", 1105, 1000, 1300) }

(* lists of up to MaxTeams rows; a row may occur more than once *)
RowLists == UNION { [1..n -> SampleRows] : n \in 0..MaxTeams }

InitRanking ==
    /\ IdleLineup
    /\ IdleInputs
    /\ IdleOutputs
    /\ IdleClamp
    /\ IdleAdvice
    /\ IdleFrame
    /\ games = <<>>
    /\ anomalies = <<>>
    /\ teamRows \in RowLists
    /\ ranking = <<>>
    /\ csvText = <<>>
    /\ parsed = <<>>

RankTeamsByContenderScore ==
    /\ "rankTeamsByContenderScore" \notin calls
    /\ ranking' = rankTeamsByContenderScore(teamRows)
    /\ calls' = calls \cup {"rankTeamsByContenderScore"}
    /\ UNCHANGED <<lineupVars, inputVars, winProbability, monte>>
    /\ UNCHANGED <<clampVars, adviceVars, frameVars, games, anomalies, teamRows, csvText, parsed>>

NextRanking == RankTeamsByContenderScore

SpecRanking == InitRanking /\ [][NextRanking]_vars

----------------------------------------------------------------------------
(* parseTeamCsv applied to a text. *)

(* the header; a clean row; a row with padded cells and a fifth cell; a row *)
(* with a blank rating; rows with text and with white space for a rating;   *)
(* a row of three cells; an empty line                                      *)
SampleLines ==
    { <<"name", "offensiveRating", "defensiveRating", "pace">>,
      <<"A", "110", "100", "95.5">>,
      <<" B ", "120", "100", " 105 ", "west">>,
      <<"C", "", "100", "100">>,
      <<"D", "110", "n/a", "100">>,
      <<"E", "110", "100", " ">>,
      <<"F", "110", "100">>,
      EmptyLine }

Texts == UNION { [1..n -> SampleLines] : n \in 0..MaxLines }

InitCsv ==
    /\ IdleLineup
    /\ IdleInputs
    /\ IdleOutputs
    /\ IdleClamp
    /\ IdleAdvice
    /\ IdleFrame
    /\ games = <<>>
    /\ anomalies = <<>>
    /\ teamRows = <<>>
    /\ ranking = <<>>
    /\ csvText \in Texts
    /\ parsed = <<>>

ParseTeamCsv ==
    /\ "parseTeamCsv" \notin calls
    /\ parsed' = parseTeamCsv(csvText)
    /\ calls' = calls \cup {"parseTeamCsv"}
    /\ UNCHANGED <<lineupVars, inputVars, winProbability, monte>>
    /\ UNCHANGED <<clampVars, adviceVars, frameVars, games, anomalies, teamRows, ranking, csvText>>

NextCsv == ParseTeamCsv

SpecCsv == InitCsv /\ [][NextCsv]_vars

----------------------------------------------------------------------------
(* Calls in a row on one heap.  pool, constraints, games and teamRows hold  *)
(* what the argument arrays held before the first call; the arrays are on   *)
(* the heap at the references of ArgumentRefs.                              *)

ArgumentRefs == [pool |-> 1, excludedPlayerIds |-> 2, games |-> 3, teams |-> 4]

FramePools == {s \in Pools : Len(s) = MaxPool /\ s[1].id = "p1"}

FrameConstraints ==
    {[c EXCEPT !.excludedPlayerIds = <<"p2">>] : c \in {x \in ConstraintSets : x.minMinutes = 0}}

(* three games of the seed log, not in the order of their anomaly scores *)
FrameLog ==
    << [game |-> 1, opponent |-> 1, pointsFor |-> 118, pointsAgainst |-> 112],
       [game |-> 2, opponent |-> 2, pointsFor |-> 110, pointsAgainst |-> 115],
       [game |-> 3, opponent |-> 3, pointsFor |-> 128, pointsAgainst |-> 116] >>

(* the example rows A and B, in the order the ranking reverses and in the *)
(* order it keeps                                                         *)
FrameRows ==
    { <<TeamRow("A", 1100, 1000, 1000), TeamRow("B", 1200, 1000, 1050)>>,
      <<TeamRow("B", 1200, 1000, 1050), TeamRow("A", 1100, 1000, 1000)>> }

InitFrame ==
    /\ pool \in FramePools
    /\ budget = MaxBudget
    /\ slots \in 1..MaxSlots
    /\ constrained = FALSE
    /\ constraints \in FrameConstraints
    /\ result = InfeasibleResult
    /\ prev = InfeasibleResult
    /\ last = "init"
    /\ IdleInputs
    /\ IdleOutputs
    /\ IdleClamp
    /\ sensitivity = <<>>
    /\ recommendations = <<>>
    /\ games = FrameLog
    /\ anomalies = <<>>
    /\ teamRows \in FrameRows
    /\ ranking = <<>>
    /\ csvText = <<>>
    /\ parsed = <<>>
    /\ heap = <<pool, constraints.excludedPlayerIds, games, teamRows>>
    /\ returns = <<>>

(* what a call leaves: the heap, and the array it returned with its content *)
ReturnOnHeap(function, h, ref) ==
    /\ heap' = h
    /\ returns' = Append(returns, [function |-> function, ref |-> ref, value |-> h[ref]])
    /\ UNCHANGED <<lineupVars, inputVars, outputVars, clampVars, adviceVars, scoutVars>>

OptimizeLineupOnHeap ==
    /\ Len(returns) < MaxCalls
    /\ LET out == optimizeLineupOnHeap(heap, ArgumentRefs.pool, budget, slots)
       IN ReturnOnHeap("optimizeLineup", out.heap, out.best.lineup)

OptimizeLineupWithConstraintsOnHeap ==
    /\ Len(returns) < MaxCalls
    /\ LET c == [constraints EXCEPT !.excludedPlayerIds = ArgumentRefs.excludedPlayerIds]
           out == optimizeLineupWithConstraintsOnHeap(heap, ArgumentRefs.pool, budget, c, slots)
       IN ReturnOnHeap("optimizeLineupWithConstraints", out.heap, out.best.lineup)

DetectGameAnomaliesOnHeap ==
    /\ Len(returns) < MaxCalls
    /\ LET out == detectGameAnomaliesOnHeap(heap, ArgumentRefs.games)
       IN ReturnOnHeap("detectGameAnomalies", out.heap, out.returned)

RankTeamsByContenderScoreOnHeap ==
    /\ Len(returns) < MaxCalls
    /\ LET out == rankTeamsByContenderScoreOnHeap(heap, ArgumentRefs.teams)
       IN ReturnOnHeap("rankTeamsByContenderScore", out.heap, out.returned)

NextFrame ==
    \/ OptimizeLineupOnHeap
    \/ OptimizeLineupWithConstraintsOnHeap
    \/ DetectGameAnomaliesOnHeap
    \/ RankTeamsByContenderScoreOnHeap

SpecFrame == InitFrame /\ [][NextFrame]_vars

----------------------------------------------------------------------------
(* runMonteCarloSimulation handed an iterations argument of any kind. *)

(* none, negative, fractional, below, in and above the range, and NaN *)
RequestedIterations ==
    {Num(1995 * k) : k \in -3..52} \cup {Num(25000 + k) : k \in -6..6} \cup {NaN}

InitIterations ==
    /\ IdleLineup
    /\ IdleInputs
    /\ IdleOutputs
    /\ rawIterations \in RequestedIterations
    /\ planned = NotPlanned
    /\ IdleAdvice
    /\ IdleFrame
    /\ IdleScout

PlanRuns ==
    /\ planned.outcome = "none"
    /\ planned' = planRuns(rawIterations)
    /\ UNCHANGED <<lineupVars, inputVars, outputVars, rawIterations, adviceVars, scoutVars, frameVars>>

NextIterations == PlanRuns

SpecIterations == InitIterations /\ [][NextIterations]_vars

----------------------------------------------------------------------------
(* The lineup optimizer driven over pools that hold equally scored players. *)

(* Two guards with one stat line, whose totals (10.24 and 0.08) are not     *)
(* multiples of a tenth, and two forwards with one stat line, whose totals  *)
(* (10.0 and 0) are.                                                        *)
TiedRoster ==
    { Player("t1", "G", 2, 30, 100, 0, 2, 0, 0, 0),
      Player("t2", "G", 2, 30, 100, 0, 2, 0, 0, 0),
      Player("t3", "F", 1, 30, 100, 0, 0, 0, 0, 0),
      Player("t4", "F", 1, 30, 100, 0, 0, 0, 0, 0) }

TiedPools ==
    UNION { { s \in [1..k -> TiedRoster] : \A i, j \in 1..k : i # j => s[i].id # s[j].id }
            : k \in 0..MaxPool }

InitTied ==
    /\ pool \in TiedPools
    /\ budget \in 1..MaxBudget
    /\ slots \in 1..MaxSlots
    /\ constrained \in BOOLEAN
    /\ constraints \in (IF constrained THEN ConstraintSets ELSE {NoConstraints})
    /\ result = InfeasibleResult
    /\ prev = InfeasibleResult
    /\ last = "init"
    /\ IdleInputs
    /\ IdleOutputs
    /\ IdleAnalysis

SpecTied == InitTied /\ [][Next]_vars

----------------------------------------------------------------------------
(* What the claims speak of: the combinations the search ranges over. *)

(* The pool the search enumerates: filtered in the constrained variant. *)
SearchPool == IF constrained THEN availablePool(pool, constraints) ELSE pool

RECURSIVE PickFrom(_, _, _)
PickFrom(p, S, i) ==
    IF i > Len(p) THEN <<>>
    ELSE (IF i \in S THEN <<p[i]>> ELSE <<>>) \o PickFrom(p, S, i + 1)

(* The players of SearchPool at the indices S, in pool order. *)
LineupOf(S) == PickFrom(SearchPool, S, 1)

SalaryOf(lineup) == SeqSum([i \in DOMAIN lineup |-> lineup[i].salary])

(* Every choice of `slots` distinct eligible players. *)
Combinations == {S \in SUBSET DOMAIN SearchPool : Cardinality(S) = slots}

(* A feasible lineup: within budget and, when constrained, of the formation. *)
Feasible(S) ==
    /\ SalaryOf(LineupOf(S)) <= budget
    /\ constrained =>
          /\ countPosition(LineupOf(S), "G") = constraints.guards
          /\ countPosition(LineupOf(S), "F") = constraints.forwards
          /\ countPosition(LineupOf(S), "C") = constraints.centers

FeasibleCombinations == {S \in Combinations : Feasible(S)}

Returned == last # "init"

(* The exact adjusted score of a result's lineup, in thousandths; an *)
(* infeasible result, whose lineup is empty, scores 0. *)
ScoreOf(r) == 10 * SeqSum([i \in DOMAIN r.lineup |-> fantasyProjection(r.lineup[i])])
              + 8 * SeqSum([i \in DOMAIN r.lineup |-> defenseImpact(r.lineup[i])])

(* C1: a lineup returned as 'optimal' has an adjusted score at least that of *)
(* every feasible combination of `slots` distinct eligible players.          *)
C1_OptimalIsMaximal ==
    (Returned /\ result.feasibility = "optimal") =>
        \A S \in FeasibleCombinations :
            ScoreOf(result) >= ScoreOf([lineup |-> LineupOf(S)])

(* C2: an 'optimal' result holds exactly `slots` pairwise distinct players,  *)
(* its totalSalary is the sum of their salaries, and that sum is within the  *)
(* budget.                                                                   *)
C2_OptimalShape ==
    (Returned /\ result.feasibility = "optimal") =>
        /\ Len(result.lineup) = slots
        /\ \A i, j \in DOMAIN result.lineup :
              i # j => result.lineup[i].id # result.lineup[j].id
        /\ result.totalSalary = SalaryOf(result.lineup)
        /\ SalaryOf(result.lineup) <= budget

C2_Witness ==
    /\ Returned
    /\ result.feasibility = "optimal"
    /\ Len(result.lineup) = 2
    /\ result.totalSalary = budget

(* C3: an 'optimal' result of optimizeLineupWithConstraints has exactly the  *)
(* required number of guards, forwards and centers.                          *)
C3_FormationMet ==
    (Returned /\ constrained /\ result.feasibility = "optimal") =>
        /\ countPosition(result.lineup, "G") = constraints.guards
        /\ countPosition(result.lineup, "F") = constraints.forwards
        /\ countPosition(result.lineup, "C") = constraints.centers

C3_Witness ==
    /\ Returned
    /\ constrained
    /\ result.feasibility = "optimal"
    /\ constraints.guards = 1
    /\ constraints.forwards = 1
    /\ \E i \in DOMAIN pool : pool[i].position = "C"

(* C4: no lineup returned by optimizeLineupWithConstraints holds an excluded *)
(* player or a player below the minutes threshold.                           *)
C4_OnlyEligiblePlayers ==
    (Returned /\ constrained) =>
        \A i \in DOMAIN result.lineup :
            /\ ~Includes(constraints.excludedPlayerIds, result.lineup[i].id)
            /\ result.lineup[i].minutes >= constraints.minMinutes

C4_Witness ==
    /\ Returned
    /\ constrained
    /\ result.feasibility = "optimal"
    /\ \E i \in DOMAIN pool : Includes(constraints.excludedPlayerIds, pool[i].id)
    /\ \E i \in DOMAIN pool : pool[i].minutes < constraints.minMinutes

(* C5: when no combination is feasible the optimizer returns 'infeasible',   *)
(* an empty lineup and totals that are all 0.                                *)
C5_InfeasibleIsEmpty ==
    (Returned /\ FeasibleCombinations = {}) =>
        /\ result.feasibility = "infeasible"
        /\ result.lineup = <<>>
        /\ result.totalSalary = 0
        /\ result.projectedPoints = 0
        /\ result.projectedDefenseImpact = 0

(* a constrained call whose required counts do not sum to `slots`, over a    *)
(* pool that holds enough affordable players                                 *)
C5_Witness ==
    /\ Returned
    /\ constrained
    /\ FeasibleCombinations = {}
    /\ constraints.guards + constraints.forwards + constraints.centers # slots
    /\ \E S \in Combinations : SalaryOf(LineupOf(S)) <= budget
    /\ result.feasibility = "infeasible"

(* C6: if at least one combination is feasible, the result is 'optimal' and  *)
(* its lineup is not empty.                                                  *)
C6_FeasibleIsOptimal ==
    (Returned /\ FeasibleCombinations # {}) =>
        /\ result.feasibility = "optimal"
        /\ result.lineup # <<>>

(* C7: raising the budget never lowers the adjusted score of the result.     *)
C7_BudgetMonotone ==
    last = "raise" => ScoreOf(result) >= ScoreOf(prev)

(* C8: excluding a player never raises the adjusted score of the result.     *)
C8_ExclusionNeverHelps ==
    last = "exclude" => ScoreOf(result) <= ScoreOf(prev)

(* C9: projectWinProbability returns an integer between 1 and 99 for every  *)
(* team and scenario (the value is held in thousandths).                    *)
C9_WinProbabilityRange ==
    "projectWinProbability" \in calls =>
        /\ winProbability % 1000 = 0
        /\ winProbability >= 1000
        /\ winProbability <= 99000

(* an extreme scenario whose raw sigmoid lies outside [1, 99] *)
C9_Witness ==
    /\ "projectWinProbability" \in calls
    /\ scenario.shootingDelta = -ExtremeDelta
    /\ scenario.turnoverDelta = ExtremeDelta
    /\ winProbability = 1000

(* The six bins as the claim states them: (-inf,-10], (-10,-5], (-5,0],     *)
(* (0,5], (5,10], (10,+inf), margins in thousandths.                        *)
ClaimedBin(k, margin) ==
    CASE k = 1 -> margin <= -10000
      [] k = 2 -> margin > -10000 /\ margin <= -5000
      [] k = 3 -> margin > -5000 /\ margin <= 0
      [] k = 4 -> margin > 0 /\ margin <= 5000
      [] k = 5 -> margin > 5000 /\ margin <= 10000
      [] k = 6 -> margin > 10000

(* C10: every simulated margin is counted in exactly one of the six bins,   *)
(* each bin's frequency is the number of margins in its range, and the six  *)
(* frequencies sum to the number of iterations run.                         *)
C10_BinsPartitionMargins ==
    "runMonteCarloSimulation" \in calls =>
        /\ Len(monte.margins) = monte.runs
        /\ monte.runs = Runs(iterations)
        /\ DOMAIN monte.distribution = 1..6
        /\ \A k \in 1..6 :
              monte.distribution[k].frequency =
                  Cardinality({i \in DOMAIN monte.margins : ClaimedBin(k, monte.margins[i])})
        /\ SeqSum([k \in 1..6 |-> monte.distribution[k].frequency]) = monte.runs

(* a run with margins on the bin edges -10, 0 and +10 *)
C10_Witness ==
    /\ "runMonteCarloSimulation" \in calls
    /\ monte.runs = MaxSamples
    /\ \E i \in DOMAIN monte.margins : monte.margins[i] = -10000
    /\ \E i \in DOMAIN monte.margins : monte.margins[i] = 0
    /\ \E i \in DOMAIN monte.margins : monte.margins[i] = 10000

----------------------------------------------------------------------------
(* C11: runMonteCarloSimulation never rejects an iteration count: whatever  *)
(* iterations it is handed (below 200, above 10000, fractional, negative or *)
(* not a number), the call returns a summary, the number of margins the     *)
(* summary is computed from lies in [200, 10000], and it is the requested   *)
(* count when that is an integer in the range.                              *)
C11_IterationsNeverRejected ==
    planned.outcome # "none" =>
        /\ planned.outcome = "summary"
        /\ planned.samples \in RunsFloor..RunsCeiling
        /\ (/\ ~rawIterations.nan
            /\ rawIterations.tenths % 10 = 0
            /\ (rawIterations.tenths \div 10) \in RunsFloor..RunsCeiling)
               => planned.samples = rawIterations.tenths \div 10

(* the smallest and the largest margin of a run, at two decimals *)
MarginValues == {monte.margins[i] : i \in DOMAIN monte.margins}

SmallestMargin == RoundHalfAway(CHOOSE m \in MarginValues : \A other \in MarginValues : m <= other, 10)

LargestMargin == RoundHalfAway(CHOOSE m \in MarginValues : \A other \in MarginValues : m >= other, 10)

LongRunReturned == "runMonteCarloSimulation" \in calls /\ Len(monte.margins) >= 10

(* C12 as the claim states it: over at least ten samples and whatever the   *)
(* margins are, floorMargin <= averageMargin <= ceilingMargin.              *)
C12_AverageBetweenPercentiles ==
    LongRunReturned =>
        /\ monte.floorMargin <= monte.averageMargin
        /\ monte.averageMargin <= monte.ceilingMargin

(* C12: over at least ten samples and whatever the margins are, floorMargin *)
(* <= ceilingMargin, and averageMargin lies between the smallest and the    *)
(* largest sampled margin.                                                  *)
C12_PercentilesOrdered ==
    LongRunReturned =>
        /\ monte.floorMargin <= monte.ceilingMargin
        /\ SmallestMargin <= monte.averageMargin
        /\ monte.averageMargin <= LargestMargin

(* a run whose one low margin drags the mean below the 10th percentile *)
C12_Witness ==
    /\ LongRunReturned
    /\ monte.averageMargin < monte.floorMargin
    /\ monte.floorMargin <= monte.ceilingMargin

SensitivityReturned == "calculateScenarioSensitivity" \in calls

(* C13: calculateScenarioSensitivity returns exactly three entries, their   *)
(* factors are Pace, Shooting and Turnovers in some order, and the absolute *)
(* value of deltaWinProbability does not increase along the list.           *)
C13_SensitivityRanked ==
    SensitivityReturned =>
        /\ Len(sensitivity) = 3
        /\ {sensitivity[i].factor : i \in 1..3} = {"Pace", "Shooting", "Turnovers"}
        /\ \A i \in 1..2 :
              Abs(sensitivity[i].deltaWinProbability) >= Abs(sensitivity[i + 1].deltaWinProbability)

(* the negative Turnovers delta is the largest in size and comes first, *)
(* ahead of two smaller positive ones                                   *)
C13_Witness ==
    /\ SensitivityReturned
    /\ sensitivity[1].factor = "Turnovers"
    /\ sensitivity[1].deltaWinProbability < 0
    /\ sensitivity[2].factor = "Shooting"
    /\ Abs(sensitivity[1].deltaWinProbability) > sensitivity[2].deltaWinProbability
    /\ sensitivity[2].deltaWinProbability > sensitivity[3].deltaWinProbability
    /\ sensitivity[3].deltaWinProbability > 0

----------------------------------------------------------------------------
(* What the claims on generateRecommendations speak of. *)

RecommendationsReturned == "generateRecommendations" \in calls

Titles == {recommendations[i].title : i \in DOMAIN recommendations}

(* the entries carrying a title *)
EntriesTitled(title) == {i \in DOMAIN recommendations : recommendations[i].title = title}

(* the four rule conditions as the specification states them, in tenths *)
PaceCondition == scenario.paceDelta > 20

TurnoverCondition == scenario.turnoverDelta > 10

ShootingCondition == scenario.shootingDelta < 0

ReboundingCondition == team.offensiveRating - team.defensiveRating < opponentNetRating

NoRuleFires ==
    ~PaceCondition /\ ~TurnoverCondition /\ ~ShootingCondition /\ ~ReboundingCondition

(* C14: generateRecommendations never returns an empty list; the default    *)
(* 'Maintain current game model' (impact 4.5) is in the list exactly when   *)
(* none of the four rules fires, and it is then the only entry.             *)
C14_DefaultIffNoRule ==
    RecommendationsReturned =>
        /\ Len(recommendations) >= 1
        /\ ("Maintain current game model" \in Titles) <=> NoRuleFires
        /\ NoRuleFires =>
              recommendations = << [title |-> "Maintain current game model", impact |-> 45] >>

(* no rule fires and the default is the whole list *)
C14_Witness ==
    /\ RecommendationsReturned
    /\ NoRuleFires
    /\ Len(recommendations) = 1
    /\ recommendations[1].title = "Maintain current game model"

(* a title is in the list exactly when its condition holds, once, with the *)
(* stated impact at one decimal (tenths; the argument is in thousandths)   *)
Contributes(title, condition, thousandths) ==
    /\ condition <=> title \in Titles
    /\ Cardinality(EntriesTitled(title)) <= 1
    /\ \A i \in EntriesTitled(title) :
          recommendations[i].impact = RoundHalfAway(thousandths, 100)

(* C15: each of the four rules contributes its recommendation exactly when *)
(* its own condition holds, whatever the other conditions, with the stated *)
(* impact at one decimal: paceDelta > 2 gives 1.6*|paceDelta| + 4,         *)
(* turnoverDelta > 1 gives 2.5*turnoverDelta + 2, shootingDelta < 0 gives  *)
(* 2.1*|shootingDelta| + 1.5, team net < opponent net gives 6.8.  With     *)
(* paceDelta = 3, the other deltas 0 and net >= opponent net, the list is  *)
(* exactly 'Push transition volume' with impact 8.8.                       *)
C15_RulesIndependent ==
    RecommendationsReturned =>
        /\ Contributes("Push transition volume", PaceCondition,
                       160 * Abs(scenario.paceDelta) + 4000)
        /\ Contributes("Prioritize low-risk sets", TurnoverCondition,
                       250 * scenario.turnoverDelta + 2000)
        /\ Contributes("Shift shot profile inward", ShootingCondition,
                       210 * Abs(scenario.shootingDelta) + 1500)
        /\ Contributes("Defensive rebounding emphasis", ReboundingCondition, 6800)
        /\ (/\ scenario = [paceDelta |-> 30, shootingDelta |-> 0, turnoverDelta |-> 0]
            /\ ~ReboundingCondition)
               => recommendations = << [title |-> "Push transition volume", impact |-> 88] >>

(* the example of the claim: only the pace rule fires, with impact 8.8 *)
C15_Witness ==
    /\ RecommendationsReturned
    /\ scenario = [paceDelta |-> 30, shootingDelta |-> 0, turnoverDelta |-> 0]
    /\ ~ReboundingCondition
    /\ recommendations = << [title |-> "Push transition volume", impact |-> 88] >>

(* the place of a title in the order the rules are evaluated *)
RuleOrder(title) ==
    CASE title = "Push transition volume" -> 1
      [] title = "Prioritize low-risk sets" -> 2
      [] title = "Shift shot profile inward" -> 3
      [] title = "Defensive rebounding emphasis" -> 4
      [] OTHER -> 5

(* C16: the list comes back in non-increasing order of impact, and entries *)
(* of equal impact keep the order in which the rules are evaluated.        *)
C16_SortedStable ==
    RecommendationsReturned =>
        \A i \in 1..(Len(recommendations) - 1) :
            \/ recommendations[i].impact > recommendations[i + 1].impact
            \/ /\ recommendations[i].impact = recommendations[i + 1].impact
               /\ RuleOrder(recommendations[i].title) < RuleOrder(recommendations[i + 1].title)

(* four entries: two of equal impact in rule order, and the fourth rule's *)
(* entry moved ahead of the third's                                       *)
C16_Witness ==
    /\ RecommendationsReturned
    /\ Len(recommendations) = 4
    /\ recommendations[1].impact = recommendations[2].impact
    /\ recommendations[1].title = "Push transition volume"
    /\ recommendations[2].title = "Prioritize low-risk sets"
    /\ recommendations[3].title = "Defensive rebounding emphasis"
    /\ recommendations[4].title = "Shift shot profile inward"

----------------------------------------------------------------------------
(* What the claim on detectGameAnomalies speaks of. *)

AnomaliesReturned == "detectGameAnomalies" \in calls

PointDifferentials == [i \in DOMAIN games |-> games[i].pointsFor - games[i].pointsAgainst]

(* the anomaly score of game i of the log: 100 * |z| at one decimal, in tenths *)
ScoreOfGame(i) == anomalyScoreOf(PointDifferentials[i], PointDifferentials)

(* the label the claim gives game i: z >= 1.2 is 5 * (d - mean) >= 6 * stdDev *)
ClaimedLabel(i) ==
    LET n == Len(games)
        total == SeqSum(PointDifferentials)
        dev == n * PointDifferentials[i] - total
        spread == SeqSum([j \in DOMAIN games |->
                             (n * PointDifferentials[j] - total) * (n * PointDifferentials[j] - total)])
        far == IF spread = 0 THEN 5 * Abs(dev) >= 6 * n ELSE 25 * n * dev * dev >= 36 * spread
    IN IF far /\ dev > 0 THEN "Positive Outlier"
       ELSE IF far /\ dev < 0 THEN "Negative Outlier" ELSE "Normal"

ReturnedGames == {anomalies[k].game : k \in DOMAIN anomalies}

(* C17: detectGameAnomalies returns min(4, number of games) entries, each   *)
(* for a game of its own, in non-increasing order of anomalyScore; no game  *)
(* left out has a larger anomalyScore (100 * |z| of its point differential, *)
(* at one decimal) than a returned game; an entry is labelled 'Positive     *)
(* Outlier' when z >= 1.2, 'Negative Outlier' when z <= -1.2, 'Normal'      *)
(* otherwise.                                                               *)
C17_TopAnomalies ==
    AnomaliesReturned =>
        /\ Len(anomalies) = Min(4, Len(games))
        /\ ReturnedGames \subseteq DOMAIN games
        /\ Cardinality(ReturnedGames) = Len(anomalies)
        /\ \A k \in DOMAIN anomalies :
              /\ anomalies[k].anomalyScore = ScoreOfGame(anomalies[k].game)
              /\ anomalies[k].label = ClaimedLabel(anomalies[k].game)
              /\ anomalies[k].opponent = games[anomalies[k].game].opponent
        /\ \A k \in 1..(Len(anomalies) - 1) :
              anomalies[k].anomalyScore >= anomalies[k + 1].anomalyScore
        /\ \A i \in DOMAIN games \ ReturnedGames :
              \A k \in DOMAIN anomalies : ScoreOfGame(i) <= anomalies[k].anomalyScore

(* more than four games; the first four are not the answer: a later game *)
(* scores higher than one of them, and both kinds of outlier are returned *)
C17_Witness ==
    /\ AnomaliesReturned
    /\ Len(games) > 4
    /\ Len(anomalies) = 4
    /\ \E i \in 1..4 : i \notin ReturnedGames
    /\ \E k \in DOMAIN anomalies : anomalies[k].label = "Positive Outlier"
    /\ \E k \in DOMAIN anomalies : anomalies[k].label = "Negative Outlier"
    /\ \E k \in DOMAIN anomalies : anomalies[k].label = "Normal"

----------------------------------------------------------------------------
(* What the claim on rankTeamsByContenderScore speaks of. *)

RankingReturned == "rankTeamsByContenderScore" \in calls

(* a ranked entry without the two fields the ranking adds *)
RowOf(entry) == TeamRow(entry.name, entry.offensiveRating, entry.defensiveRating, entry.pace)

Occurrences(s, x) == Cardinality({i \in DOMAIN s : s[i] = x})

(* 3.2 * (offensiveRating - defensiveRating) - 0.15 * |pace - 100| at two *)
(* decimals: thousandths rounded to hundredths                            *)
ClaimedContenderScore(row) ==
    LET away == IF row.pace >= 1000 THEN row.pace - 1000 ELSE 1000 - row.pace
    IN RoundHalfAway(320 * (row.offensiveRating - row.defensiveRating) - 15 * away, 10)

(* C18: rankTeamsByContenderScore returns a permutation of its input rows  *)
(* in non-increasing order of contenderScore = 3.2 * (offensiveRating -    *)
(* defensiveRating) - 0.15 * |pace - 100| (two decimals); for the rows     *)
(* A(110,100,100) and B(120,100,105) the order is B before A.              *)
C18_RankedPermutation ==
    RankingReturned =>
        /\ Len(ranking) = Len(teamRows)
        /\ \A row \in SampleRows :
              Occurrences([k \in DOMAIN ranking |-> RowOf(ranking[k])], row) = Occurrences(teamRows, row)
        /\ \A k \in DOMAIN ranking :
              ranking[k].contenderScore = ClaimedContenderScore(RowOf(ranking[k]))
        /\ \A k \in 1..(Len(ranking) - 1) :
              ranking[k].contenderScore >= ranking[k + 1].contenderScore
        /\ teamRows = <<TeamRow("A", 1100, 1000, 1000), TeamRow("B", 1200, 1000, 1050)>>
              => [k \in DOMAIN ranking |-> ranking[k].name] = <<"B", "A">>

(* the example of the claim: B is moved ahead of A *)
C18_Witness ==
    /\ RankingReturned
    /\ teamRows = <<TeamRow("A", 1100, 1000, 1000), TeamRow("B", 1200, 1000, 1050)>>
    /\ [k \in DOMAIN ranking |-> ranking[k].name] = <<"B", "A">>
    /\ ranking[1].contenderScore = 6325
    /\ ranking[2].contenderScore = 3200

----------------------------------------------------------------------------
(* What the claim on parseTeamCsv speaks of. *)

CsvReturned == "parseTeamCsv" \in calls

(* the cells that hold a number, and the number each holds, in tenths; a  *)
(* blank cell and a cell of other text hold none                          *)
NumberHeld ==
    [cell \in {"95.5", "100", " 105 ", "110", "120"} |->
        CASE cell = "95.5" -> 955
          [] cell = "100" -> 1000
          [] cell = " 105 " -> 1050
          [] cell = "110" -> 1100
          [] cell = "120" -> 1200]

HoldsNumber(cell) == cell \in DOMAIN NumberHeld

(* the lines after the header, the header being the first non-empty line *)
DataLines ==
    LET nonEmpty(line) == line # <<"">>
        lines == SelectSeq(csvText, nonEmpty)
    IN IF lines = <<>> THEN <<>> ELSE Tail(lines)

(* the rows the claim says come back: of the data lines, in order, those  *)
(* with at least 4 cells whose three numeric cells each hold a number     *)
ClaimedRows ==
    LET valid(line) ==
            /\ Len(line) >= 4
            /\ HoldsNumber(line[2]) /\ HoldsNumber(line[3]) /\ HoldsNumber(line[4])
        kept == SelectSeq(DataLines, valid)
    IN [i \in DOMAIN kept |->
           [name |-> IF kept[i][1] = " B " THEN "B" ELSE kept[i][1],
            offensiveRating |-> Num(NumberHeld[kept[i][2]]),
            defensiveRating |-> Num(NumberHeld[kept[i][3]]),
            pace |-> Num(NumberHeld[kept[i][4]])]]

(* C19: parseTeamCsv returns, in input order, exactly the non-header lines *)
(* that have at least 4 comma-separated cells and whose offensiveRating,   *)
(* defensiveRating and pace cells each hold a number; a data row in which  *)
(* one of the three is blank or other text is dropped; a text without data *)
(* rows gives the empty list.                                              *)
C19_ValidRowsOnly == CsvReturned => parsed = ClaimedRows

----------------------------------------------------------------------------
(* What the claim on the engine's arguments speaks of. *)

Optimizers == {"optimizeLineup", "optimizeLineupWithConstraints"}

(* C20: the engine never mutates its inputs: after any call of             *)
(* optimizeLineup, optimizeLineupWithConstraints, detectGameAnomalies or   *)
(* rankTeamsByContenderScore the argument arrays (the pool, the excluded   *)
(* ids, the games, the team rows) hold the elements they held before, in   *)
(* the same order, and a lineup returned by an earlier call holds what it  *)
(* held when it was returned.                                              *)
C20_InputsNeverMutated ==
    heap # <<>> =>
        /\ heap[ArgumentRefs.pool] = pool
        /\ heap[ArgumentRefs.excludedPlayerIds] = constraints.excludedPlayerIds
        /\ heap[ArgumentRefs.games] = games
        /\ heap[ArgumentRefs.teams] = teamRows
        /\ \A k \in DOMAIN returns :
              returns[k].function \in Optimizers => heap[returns[k].ref] = returns[k].value

(* a lineup of two players was returned, found by pushing to and popping  *)
(* from the chosen array, and a later call sorted the rows into another   *)
(* order than the one handed in                                           *)
C20_Witness ==
    /\ Len(returns) = 2
    /\ returns[1].function = "optimizeLineup"
    /\ Len(returns[1].value) = 2
    /\ returns[2].function = "rankTeamsByContenderScore"
    /\ [i \in DOMAIN returns[2].value |-> returns[2].value[i].name] = <<"B", "A">>
    /\ teamRows[1].name = "A"
    /\ heap[returns[1].ref] = returns[1].value

----------------------------------------------------------------------------
(* The order in which the search generates combinations. *)

(* backtrack's loop runs over strictly increasing indices, so combination S  *)
(* is generated before T when S holds the least index on which they differ.  *)
GeneratedBefore(S, T) ==
    LET differing == (S \ T) \cup (T \ S)
    IN  /\ differing # {}
        /\ (CHOOSE m \in differing : \A x \in differing : m <= x) \in S

(* The feasible combinations of the greatest adjusted score. *)
MaximalCombinations ==
    {S \in FeasibleCombinations :
        \A T \in FeasibleCombinations :
            ScoreOf([lineup |-> LineupOf(S)]) >= ScoreOf([lineup |-> LineupOf(T)])}

FirstMaximal ==
    CHOOSE S \in MaximalCombinations :
        \A T \in MaximalCombinations \ {S} : GeneratedBefore(S, T)

(* C21: among the feasible combinations that share the maximum adjusted      *)
(* score the optimizer returns the one generated first (a later combination  *)
(* replaces the best only on a strictly greater adjusted score).             *)
C21_FirstFoundWins ==
    (Returned /\ MaximalCombinations # {}) =>
        result.lineup = LineupOf(FirstMaximal)

----------------------------------------------------------------------------
(* What the claim on degenerate game logs speaks of. *)

(* every game of the log has the same point differential *)
ZeroVariance ==
    \A i, j \in DOMAIN games : PointDifferentials[i] = PointDifferentials[j]

(* C22: for a game log in which every game has the same point differential  *)
(* detectGameAnomalies returns entries (min(4, number of games) of them)    *)
(* that all have anomalyScore 0 and label 'Normal': the standard deviation  *)
(* is taken as 1 and nothing is divided by zero; for an empty game log it   *)
(* returns an empty list.                                                   *)
C22_ZeroVarianceIsNormal ==
    (AnomaliesReturned /\ ZeroVariance) =>
        /\ Len(games) = 0 => anomalies = <<>>
        /\ Len(anomalies) = Min(TopAnomalies, Len(games))
        /\ \A k \in DOMAIN anomalies :
              /\ anomalies[k].anomalyScore = 0
              /\ anomalies[k].label = "Normal"

(* five games of one differential, not all of one score line; four entries *)
(* come back                                                               *)
C22_Witness ==
    /\ AnomaliesReturned
    /\ ZeroVariance
    /\ Len(games) > TopAnomalies
    /\ \E i, j \in DOMAIN games : games[i].pointsFor # games[j].pointsFor
    /\ Len(anomalies) = TopAnomalies
    /\ \A k \in DOMAIN anomalies : anomalies[k].anomalyScore = 0

----------------------------------------------------------------------------
(* What the claim on the win rate speaks of. *)

(* the frequency the distribution reports under a label *)
FrequencyOf(label) ==
    SeqSum([k \in DOMAIN monte.distribution |->
               IF monte.distribution[k].range = label
               THEN monte.distribution[k].frequency ELSE 0])

(* the frequencies of the three bins above zero *)
FrequencyAboveZero == FrequencyOf("0 to +5") + FrequencyOf("+5 to +10") + FrequencyOf("> +10")

(* the margins of exactly 0 *)
DrawnGames == {i \in DOMAIN monte.margins : monte.margins[i] = 0}

(* C23: in every runMonteCarloSimulation result the win count behind        *)
(* winRate equals the sum of the frequencies of the bins '0 to +5',         *)
(* '+5 to +10' and '> +10'; a margin of exactly 0 is no win and is counted  *)
(* in the bin '-5 to 0'; winRate is 100 * wins / runs at one decimal and    *)
(* lies in [0, 100].                                                        *)
C23_WinsAreBinsAboveZero ==
    "runMonteCarloSimulation" \in calls =>
        /\ monte.wins = FrequencyAboveZero
        /\ monte.wins + Cardinality(DrawnGames)
               = Cardinality({i \in DOMAIN monte.margins : monte.margins[i] >= 0})
        /\ Cardinality(DrawnGames) <= FrequencyOf("-5 to 0")
        /\ monte.winRate = RoundHalfAway(1000 * FrequencyAboveZero, monte.runs)
        /\ monte.winRate >= 0
        /\ monte.winRate <= 1000

(* a run that holds a win, a loss and a margin of exactly 0 *)
C23_Witness ==
    /\ "runMonteCarloSimulation" \in calls
    /\ DrawnGames # {}
    /\ monte.wins > 0
    /\ monte.wins + Cardinality(DrawnGames) < monte.runs
    /\ monte.winRate > 0
    /\ monte.winRate < 1000

====
